---------------------------- MODULE Spec2Model ----------------------------
(***************************************************************************)
(* The AZTEC Cryptography Engine (packages/protocol/contracts/ACE/ACE.sol) *)
(* as a state machine: the validator registry, the revocation flags, the   *)
(* epoch counter, the common reference string and the ledger of validated  *)
(* balanced proofs.  Every external function of the contract is one        *)
(* action; a reverted call leaves the storage untouched and is observable  *)
(* only through lastOp, the record of the latest call and its outcome.     *)
(***************************************************************************)
EXTENDS Integers, Sequences, FiniteSets, TLC

VARIABLES
    validators,             \* address[0x100][0x100][0x10000], by slot offset
    disabledValidators,     \* bool[0x100][0x100][0x10000], the set bytes <<slot offset, byte>>
    latestEpoch,            \* uint8
    commonReferenceString,  \* bytes32[6]
    validatedProofs,        \* mapping(bytes32 => bool), the keys that map to true
    lastOp,                 \* the latest call: function, msg.sender, arguments, outcome
    pending,                \* the validateProof call that waits for its validator to return
    withdraw,               \* the run of the client's sendWithdraw
    transaction             \* the run of the background's sendTransaction

vars == <<validators, disabledValidators, latestEpoch, commonReferenceString,
          validatedProofs, lastOp, pending, withdraw, transaction>>

\* the two JavaScript functions, which hold no contract storage
clients == <<withdraw, transaction>>

storage == <<validators, disabledValidators, latestEpoch, commonReferenceString,
             validatedProofs>>

-----------------------------------------------------------------------------
(* Bounds of the model *)

\* incrementLatestEpoch is explored up to this value of latestEpoch
MaxEpoch == 2

\* the longest _proofHashes array passed to clearProofByHashes
MaxHashes == 2

\* the largest number of proof outputs a validator returns
MaxOutputs == 2

-----------------------------------------------------------------------------
(* Values *)

\* address(0x0)
ZERO_ADDRESS == 0

\* the deployer, whom Ownable() makes the owner
owner == 1

\* the accounts that send transactions: the owner and another account
Callers == {owner, owner + 1}

\* the values of setProof's _validatorAddress
ValidatorAddresses == {ZERO_ADDRESS, 3}

\* uint8(ProofCategory.BALANCED)
BALANCED == 1

\* the uint24 proof objects of the model, as <<epoch, category, id>>:
\*   131328 = 0x020100 = <<2, 1, 0>>   balanced, epoch 2
\*   4104   = 0x001008 = <<0, 16, 8>>  not balanced, epoch 0
\* 4104 is 131328 >> 5: the slot offset that holds the byte of
\* disabledValidators[2][1][0] is the slot offset that the two sload read for 4104
Proofs == {4104, 131328}

\* the proof outputs a validator may return
ProofOutput == {1, 2}

\* bytes32(0x0)
ZERO_HASH == 0

\* keccak256 of one proof output: injective and never zero
Keccak256(output) == 2 * output + 1

\* the bytes32 values passed as proof hashes
ProofHashes == {ZERO_HASH} \cup {Keccak256(o) : o \in ProofOutput}

\* keccak256(abi.encode(proofHash, _proof, sender)): injective in its three arguments
ValidatedProofHash(proofHash, _proof, sender) == <<proofHash, _proof, sender>>

ZeroCRS == <<0, 0, 0, 0, 0, 0>>

\* the values of setCommonReferenceString's argument
CRSValues == {ZeroCRS, <<1, 2, 3, 4, 5, 6>>}

\* the outcome of the staticcall to a validator: failure, or the proof outputs
CallFailed == <<-1>>

SeqsUpTo(S, n) == UNION {[1..k -> S] : k \in 0..n}

ValidatorOutcomes == {CallFailed} \cup SeqsUpTo(ProofOutput, MaxOutputs)

HashLists == SeqsUpTo(ProofHashes, MaxHashes)

-----------------------------------------------------------------------------
(* Revert reasons *)

Unauthorized_setCRS == "only the owner can set the common reference string"
Unauthorized_invalidate == "only the owner can invalidate a proof"
Unauthorized_setProof == "only the owner can set a proof"
Unauthorized_increment == "only the owner can update the latest epoch"
UnknownValidator_invalidate == "can only invalidate proofs that exist!"
UnknownValidator == "expected the validator address to exist"
DisabledValidator == "expected the validator address to not be disabled"
DisabledValidator_byHash == "this proof id has been invalidated!"
EpochExceeded == "the proof epoch cannot be bigger than the latest epoch"
AlreadyRegistered == "existing proofs cannot be modified"
InvalidFingerprint == "expected no empty proof hash"
NotPreviouslyValidated == "can only clear previously validated proofs"
ValidationRejected == "400"
Overflow == "SafeMath8: addition overflow"
Ok == ""

-----------------------------------------------------------------------------
(* Proof objects and the storage layout *)

\* ProofUtils.getProofComponents: the three bytes of a uint24
GetProofComponents(_proof) ==
    [epoch    |-> (_proof \div 65536) % 256,
     category |-> (_proof \div 256) % 256,
     id       |-> _proof % 256]

\* ((_proof >> 8) & 0xff)
CategoryOf(_proof) == (_proof \div 256) % 256

\* slot offset of validators[epoch][category][id]: one address per slot
ValidatorsSlot(epoch, category, id) == (epoch * 256 + category) * 256 + id

\* slot offset and byte of disabledValidators[epoch][category][id]: a bool
\* takes one byte, so bool[0x100] packs 32 elements per slot into 8 slots
DisabledValidatorsCell(epoch, category, id) ==
    <<(epoch * 256 + category) * 8 + (id \div 32), id % 32>>

\* sload(add(_proof, validators_slot))
SloadValidators(offset) ==
    IF offset \in DOMAIN validators THEN validators[offset] ELSE ZERO_ADDRESS

\* sload(add(_proof, disabledValidators_slot)) is a non-zero word
SloadDisabledValidators(offset) ==
    \E cell \in disabledValidators : cell[1] = offset

\* the public getter disabledValidators(epoch, category, id)
IsDisabled(_proof) ==
    LET c == GetProofComponents(_proof)
    IN  DisabledValidatorsCell(c.epoch, c.category, c.id) \in disabledValidators

\* the element validators[epoch][category][id]
ValidatorOf(_proof) ==
    LET c == GetProofComponents(_proof)
    IN  SloadValidators(ValidatorsSlot(c.epoch, c.category, c.id))

\* Ownable.isOwner
IsOwner(sender) == sender = owner


-----------------------------------------------------------------------------
(* The record of a call *)

Call(fn, sender, _proof, address, data, crs, err, ret) ==
    [fn |-> fn, sender |-> sender, proof |-> _proof, address |-> address,
     data |-> data, crs |-> crs, err |-> err, ret |-> ret]

\* a reverted transaction: no storage write survives
Revert(call) ==
    /\ lastOp' = call
    /\ UNCHANGED storage

\* a validateProof call between its staticcall and the validator's return
Frame(msgSender, _proof, _sender) ==
    [active |-> TRUE, msgSender |-> msgSender, proof |-> _proof, sender |-> _sender]

\* no validateProof call is waiting for its validator
NoCall == [active |-> FALSE, msgSender |-> ZERO_ADDRESS, proof |-> 0,
           sender |-> ZERO_ADDRESS]

\* sendWithdraw has not been called
NoWithdraw ==
    [pc |-> "idle", outputNotes |-> <<>>, sent |-> <<>>, i |-> 0,
     error |-> "", result |-> <<>>]

\* sendTransaction has not been called
NoTransaction ==
    [pc |-> "idle", query |-> <<>>, thrown |-> <<>>, sendSucceeded |-> FALSE,
     settled |-> "", value |-> <<>>]

Init ==
    /\ validators = [p \in Proofs |-> ZERO_ADDRESS]
    /\ disabledValidators = {}
    /\ latestEpoch = 1
    /\ commonReferenceString = ZeroCRS
    /\ validatedProofs = {}
    /\ lastOp = Call("constructor", owner, 0, ZERO_ADDRESS, <<>>, ZeroCRS, Ok, FALSE)
    /\ pending = NoCall
    /\ withdraw = NoWithdraw
    /\ transaction = NoTransaction

-----------------------------------------------------------------------------
(* getValidatorAddress *)

\* the revert reason of getValidatorAddress(_proof), Ok when it returns
GetValidatorAddressErr(_proof) ==
    LET isValidatorDisabled == SloadDisabledValidators(_proof)
        validatorAddress    == SloadValidators(_proof)
        queryInvalid        == (validatorAddress = ZERO_ADDRESS) \/ isValidatorDisabled
    IN  IF queryInvalid
        THEN IF ~(validatorAddress # ZERO_ADDRESS) THEN UnknownValidator
             ELSE IF ~(isValidatorDisabled = FALSE) THEN DisabledValidator
             ELSE Ok
        ELSE Ok

GetValidatorAddress(_proof) ==
    /\ lastOp' = Call("getValidatorAddress", ZERO_ADDRESS, _proof,
                      IF GetValidatorAddressErr(_proof) = Ok
                      THEN SloadValidators(_proof) ELSE ZERO_ADDRESS,
                      <<>>, ZeroCRS, GetValidatorAddressErr(_proof), FALSE)
    /\ UNCHANGED storage

-----------------------------------------------------------------------------
(* validateProof *)

\* mutant: the result of the staticcall is not tested
CallSucceeded_Mut(outcome) == TRUE

\* the switch on the result of the staticcall to the validator
CallSucceeded(outcome) == outcome # CallFailed

\* the revert reason of validateProof, Ok when it returns
ValidateProofErr(_proof, outcome) ==
    IF GetValidatorAddressErr(_proof) # Ok THEN GetValidatorAddressErr(_proof)
    ELSE IF ~CallSucceeded(outcome) THEN ValidationRejected
    ELSE Ok

\* mutant: every category from BALANCED on is recorded
IsBalanced_Mut(_proof) == CategoryOf(_proof) >= BALANCED

\* the category test that guards the recording of the proof hashes
IsBalanced(_proof) == CategoryOf(_proof) = BALANCED

\* mutant: the key is made of the _sender argument
RecordingAccount_Mut(msgSender, _sender) == _sender

\* the account in the key of a recorded proof hash
RecordingAccount(msgSender, _sender) == msgSender

\* the loop over the proof outputs, from index i
\* mutant: a record that is already true is set to false
RECURSIVE RecordProofOutputs_Mut(_, _, _, _, _)
RecordProofOutputs_Mut(ledger, proofOutputs, i, _proof, account) ==
    IF i < Len(proofOutputs)
    THEN LET proofHash          == Keccak256(proofOutputs[i + 1])
             validatedProofHash == ValidatedProofHash(proofHash, _proof, account)
         IN  RecordProofOutputs_Mut(IF validatedProofHash \in ledger
                                    THEN ledger \ {validatedProofHash}
                                    ELSE ledger \cup {validatedProofHash},
                                    proofOutputs, i + 1, _proof, account)
    ELSE ledger

RECURSIVE RecordProofOutputs(_, _, _, _, _)
RecordProofOutputs(ledger, proofOutputs, i, _proof, account) ==
    IF i < Len(proofOutputs)
    THEN LET proofHash          == Keccak256(proofOutputs[i + 1])
             validatedProofHash == ValidatedProofHash(proofHash, _proof, account)
         IN  RecordProofOutputs(ledger \cup {validatedProofHash}, proofOutputs,
                                i + 1, _proof, account)
    ELSE ledger

\* mutant: the loop starts at the second proof output
ValidatedProofsAfter_Mut(msgSender, _proof, _sender, proofOutputs) ==
    IF IsBalanced(_proof)
    THEN RecordProofOutputs(validatedProofs, proofOutputs, 1, _proof,
                            RecordingAccount(msgSender, _sender))
    ELSE validatedProofs

\* validatedProofs after a call whose validator returned proofOutputs
ValidatedProofsAfter(msgSender, _proof, _sender, proofOutputs) ==
    IF IsBalanced(_proof)
    THEN RecordProofOutputs(validatedProofs, proofOutputs, 0, _proof,
                            RecordingAccount(msgSender, _sender))
    ELSE validatedProofs

\* outcome is what the staticcall to the validator gives for the proof data
\* mutant: the sixth word is read from the slot of the fifth
ValidatorCalldataCRS_Mut ==
    [i \in 1..6 |-> commonReferenceString[IF i = 6 THEN 5 ELSE i]]

\* the six words of commonReferenceString copied into the validator's calldata
ValidatorCalldataCRS == [i \in 1..6 |-> commonReferenceString[i]]

\* the call as one step: the validator is called and returns within it
ValidateProof(msgSender, _proof, _sender, outcome) ==
    LET err  == ValidateProofErr(_proof, outcome)
        call == Call("validateProof", msgSender, _proof, _sender,
                     IF GetValidatorAddressErr(_proof) = Ok THEN outcome ELSE <<>>,
                     ValidatorCalldataCRS, err, FALSE)
    IN  IF err # Ok
        THEN Revert(call)
        ELSE /\ validatedProofs' = ValidatedProofsAfter(msgSender, _proof, _sender, outcome)
             /\ lastOp' = call
             /\ UNCHANGED <<validators, disabledValidators, latestEpoch,
                            commonReferenceString>>

-----------------------------------------------------------------------------
(* clearProofByHashes *)

\* mutant: the loop does not require the record to be true
RECURSIVE ClearLoop_Mut(_, _, _, _, _)
ClearLoop_Mut(ledger, _proofHashes, i, _proof, msgSender) ==
    IF i < Len(_proofHashes)
    THEN LET proofHash          == _proofHashes[i + 1]
             validatedProofHash == ValidatedProofHash(proofHash, _proof, msgSender)
         IN  IF ~(proofHash # ZERO_HASH)
             THEN [err |-> InvalidFingerprint, ledger |-> ledger]
             ELSE ClearLoop_Mut(ledger \ {validatedProofHash}, _proofHashes, i + 1,
                                _proof, msgSender)
    ELSE [err |-> Ok, ledger |-> ledger]

\* the loop over _proofHashes, from index i: the revert reason, Ok when the
\* loop ends, and the ledger as the loop has written it so far
RECURSIVE ClearLoop(_, _, _, _, _)
ClearLoop(ledger, _proofHashes, i, _proof, msgSender) ==
    IF i < Len(_proofHashes)
    THEN LET proofHash          == _proofHashes[i + 1]
             validatedProofHash == ValidatedProofHash(proofHash, _proof, msgSender)
         IN  IF ~(proofHash # ZERO_HASH)
             THEN [err |-> InvalidFingerprint, ledger |-> ledger]
             ELSE IF ~(validatedProofHash \in ledger)
             THEN [err |-> NotPreviouslyValidated, ledger |-> ledger]
             ELSE ClearLoop(ledger \ {validatedProofHash}, _proofHashes, i + 1,
                            _proof, msgSender)
    ELSE [err |-> Ok, ledger |-> ledger]

\* mutant: the records of an invalidated proof cannot be cleared
ClearProofByHashesErr_Registry_Mut(msgSender, _proof, _proofHashes) ==
    IF IsDisabled(_proof) THEN DisabledValidator
    ELSE ClearLoop(validatedProofs, _proofHashes, 0, _proof, msgSender).err

\* mutant: a zero proof hash is looked up like any other
ClearProofByHashesErr_Mut(msgSender, _proof, _proofHashes) ==
    LET err == ClearLoop(validatedProofs, _proofHashes, 0, _proof, msgSender).err
    IN  IF err = InvalidFingerprint THEN NotPreviouslyValidated ELSE err

\* the revert reason of clearProofByHashes, Ok when it returns
ClearProofByHashesErr(msgSender, _proof, _proofHashes) ==
    ClearLoop(validatedProofs, _proofHashes, 0, _proof, msgSender).err

\* mutant: the writes of the iterations before a failed one are kept
ValidatedProofsCleared_Mut(msgSender, _proof, _proofHashes) ==
    ClearLoop(validatedProofs, _proofHashes, 0, _proof, msgSender).ledger

\* validatedProofs after the call: a failed require reverts the writes of the
\* earlier iterations
ValidatedProofsCleared(msgSender, _proof, _proofHashes) ==
    LET r == ClearLoop(validatedProofs, _proofHashes, 0, _proof, msgSender)
    IN  IF r.err # Ok THEN validatedProofs ELSE r.ledger

ClearProofByHashes(msgSender, _proof, _proofHashes) ==
    /\ lastOp' = Call("clearProofByHashes", msgSender, _proof, ZERO_ADDRESS,
                      _proofHashes, ZeroCRS,
                      ClearProofByHashesErr(msgSender, _proof, _proofHashes), FALSE)
    /\ validatedProofs' = ValidatedProofsCleared(msgSender, _proof, _proofHashes)
    /\ UNCHANGED <<validators, disabledValidators, latestEpoch, commonReferenceString>>

-----------------------------------------------------------------------------
(* The owner's functions *)

SetCommonReferenceStringErr(msgSender) ==
    IF ~IsOwner(msgSender) THEN Unauthorized_setCRS ELSE Ok

SetCommonReferenceString(msgSender, _commonReferenceString) ==
    LET err  == SetCommonReferenceStringErr(msgSender)
        call == Call("setCommonReferenceString", msgSender, 0, ZERO_ADDRESS,
                     <<>>, _commonReferenceString, err, FALSE)
    IN  IF err # Ok
        THEN Revert(call)
        ELSE /\ commonReferenceString' = _commonReferenceString
             /\ lastOp' = call
             /\ UNCHANGED <<validators, disabledValidators, latestEpoch,
                            validatedProofs>>

\* mutant: the proof is not required to have a validator
InvalidateProofErr_Mut(msgSender, _proof) ==
    IF ~IsOwner(msgSender) THEN Unauthorized_invalidate ELSE Ok

InvalidateProofErr(msgSender, _proof) ==
    IF ~IsOwner(msgSender) THEN Unauthorized_invalidate
    ELSE IF ~(ValidatorOf(_proof) # ZERO_ADDRESS) THEN UnknownValidator_invalidate
    ELSE Ok

\* mutant: invalidating a proof also drops its records from the ledger
InvalidateProof_Mut(msgSender, _proof) ==
    LET c    == GetProofComponents(_proof)
        err  == InvalidateProofErr(msgSender, _proof)
        call == Call("invalidateProof", msgSender, _proof, ZERO_ADDRESS,
                     <<>>, ZeroCRS, err, FALSE)
    IN  IF err # Ok
        THEN Revert(call)
        ELSE /\ disabledValidators' = disabledValidators
                    \cup {DisabledValidatorsCell(c.epoch, c.category, c.id)}
             /\ validatedProofs' = {key \in validatedProofs : key[2] # _proof}
             /\ lastOp' = call
             /\ UNCHANGED <<validators, latestEpoch, commonReferenceString>>

InvalidateProof(msgSender, _proof) ==
    LET c    == GetProofComponents(_proof)
        err  == InvalidateProofErr(msgSender, _proof)
        call == Call("invalidateProof", msgSender, _proof, ZERO_ADDRESS,
                     <<>>, ZeroCRS, err, FALSE)
    IN  IF err # Ok
        THEN Revert(call)
        ELSE /\ disabledValidators' = disabledValidators
                    \cup {DisabledValidatorsCell(c.epoch, c.category, c.id)}
             /\ lastOp' = call
             /\ UNCHANGED <<validators, latestEpoch, commonReferenceString,
                            validatedProofs>>

\* mutant: the epoch after the latest one is accepted too
EpochAllowed_Mut(epoch) == epoch <= latestEpoch + 1

\* the epoch test of setProof
EpochAllowed(epoch) == epoch <= latestEpoch

\* mutant: a proof that has a validator may be set again
IsUnset_Mut(_proof) == TRUE

\* the test of setProof that the proof has no validator yet
IsUnset(_proof) == ValidatorOf(_proof) = ZERO_ADDRESS

SetProofErr(msgSender, _proof, _validatorAddress) ==
    IF ~IsOwner(msgSender) THEN Unauthorized_setProof
    ELSE IF ~EpochAllowed(GetProofComponents(_proof).epoch) THEN EpochExceeded
    ELSE IF ~IsUnset(_proof) THEN AlreadyRegistered
    ELSE Ok

SetProof(msgSender, _proof, _validatorAddress) ==
    LET c    == GetProofComponents(_proof)
        err  == SetProofErr(msgSender, _proof, _validatorAddress)
        call == Call("setProof", msgSender, _proof, _validatorAddress,
                     <<>>, ZeroCRS, err, FALSE)
    IN  IF err # Ok
        THEN Revert(call)
        ELSE /\ validators' = [validators EXCEPT
                    ![ValidatorsSlot(c.epoch, c.category, c.id)] = _validatorAddress]
             /\ lastOp' = call
             /\ UNCHANGED <<disabledValidators, latestEpoch, commonReferenceString,
                            validatedProofs>>

\* the largest value of a uint8, the type of latestEpoch
MaxUint8 == 255

\* SafeMath8.add reverts when the sum does not fit a uint8
SafeMath8AddOverflows(a, b) == a + b > MaxUint8

\* mutant: the owner is not required
IncrementLatestEpochErr_Mut(msgSender) ==
    IF SafeMath8AddOverflows(latestEpoch, 1) THEN Overflow ELSE Ok

IncrementLatestEpochErr(msgSender) ==
    IF ~IsOwner(msgSender) THEN Unauthorized_increment
    ELSE IF SafeMath8AddOverflows(latestEpoch, 1) THEN Overflow
    ELSE Ok

\* mutant: the epoch is stepped down
LatestEpochIncremented_Mut == latestEpoch - 1

\* latestEpoch.add(1)
LatestEpochIncremented == latestEpoch + 1

\* the whole call, at any epoch a uint8 holds
IncrementLatestEpochCall(msgSender) ==
    LET err  == IncrementLatestEpochErr(msgSender)
        call == Call("incrementLatestEpoch", msgSender, 0, ZERO_ADDRESS,
                     <<>>, ZeroCRS, err, FALSE)
    IN  IF err # Ok
        THEN Revert(call)
        ELSE /\ latestEpoch' = LatestEpochIncremented
             /\ lastOp' = call
             /\ UNCHANGED <<validators, disabledValidators, commonReferenceString,
                            validatedProofs>>

\* the call while the epoch is below the bound of the full model
IncrementLatestEpoch(msgSender) ==
    /\ latestEpoch < MaxEpoch
    /\ IncrementLatestEpochCall(msgSender)

-----------------------------------------------------------------------------
(* The views *)

\* the revert reason of validateProofByHash, Ok when it returns
ValidateProofByHashErr(_proof) ==
    LET isValidatorDisabled == SloadDisabledValidators(_proof)
    IN  IF ~(isValidatorDisabled = FALSE) THEN DisabledValidator_byHash ELSE Ok

\* isProofValid, the value validateProofByHash returns
IsProofValid(_proof, _proofHash, _sender) ==
    ValidatedProofHash(_proofHash, _proof, _sender) \in validatedProofs

ValidateProofByHash(_proof, _proofHash, _sender) ==
    /\ lastOp' = Call("validateProofByHash", ZERO_ADDRESS, _proof, _sender,
                      <<_proofHash>>, ZeroCRS, ValidateProofByHashErr(_proof),
                      /\ ValidateProofByHashErr(_proof) = Ok
                      /\ IsProofValid(_proof, _proofHash, _sender))
    /\ UNCHANGED storage

GetCommonReferenceString ==
    /\ lastOp' = Call("getCommonReferenceString", ZERO_ADDRESS, 0, ZERO_ADDRESS,
                      <<>>, commonReferenceString, Ok, FALSE)
    /\ UNCHANGED storage

-----------------------------------------------------------------------------

\* every call is one step, and no validateProof call is left waiting
Next ==
    \/ \E s \in Callers, p \in Proofs, a \in Callers, o \in ValidatorOutcomes :
            ValidateProof(s, p, a, o) /\ UNCHANGED <<pending, clients>>
    \/ \E s \in Callers, p \in Proofs, h \in HashLists :
            ClearProofByHashes(s, p, h) /\ UNCHANGED <<pending, clients>>
    \/ \E s \in Callers, c \in CRSValues :
            SetCommonReferenceString(s, c) /\ UNCHANGED <<pending, clients>>
    \/ \E s \in Callers, p \in Proofs : InvalidateProof(s, p) /\ UNCHANGED <<pending, clients>>
    \/ \E p \in Proofs, h \in ProofHashes, a \in Callers :
            ValidateProofByHash(p, h, a) /\ UNCHANGED <<pending, clients>>
    \/ \E s \in Callers, p \in Proofs, a \in ValidatorAddresses :
            SetProof(s, p, a) /\ UNCHANGED <<pending, clients>>
    \/ \E s \in Callers : IncrementLatestEpoch(s) /\ UNCHANGED <<pending, clients>>
    \/ GetCommonReferenceString /\ UNCHANGED <<pending, clients>>
    \/ \E p \in Proofs : GetValidatorAddress(p) /\ UNCHANGED <<pending, clients>>

Spec == Init /\ [][Next]_vars

\* The epoch counter on its own: latestEpoch is written by incrementLatestEpoch
\* alone, and the call reads nothing but the caller and latestEpoch, so this
\* specification walks the counter through every value of its uint8.
NextEpoch == \E s \in Callers : IncrementLatestEpochCall(s) /\ UNCHANGED <<pending, clients>>

SpecEpoch == Init /\ [][NextEpoch]_vars

-----------------------------------------------------------------------------
(* validateProof in two steps, around the staticcall to the validator *)

\* the failure of a call that writes storage in the static context
StaticStateChange == "state change in a static call"

\* mutant: the validator is called with call
ValidatorCallIsStatic_Mut == FALSE

\* the validator is called with staticcall
ValidatorCallIsStatic == TRUE

\* validateProof up to the staticcall: getValidatorAddress, then the calldata
ValidateProofEnter(msgSender, _proof, _sender) ==
    LET err == GetValidatorAddressErr(_proof)
    IN  /\ ~pending.active
        /\ IF err # Ok
           THEN /\ Revert(Call("validateProof", msgSender, _proof, _sender, <<>>,
                               ValidatorCalldataCRS, err, FALSE))
                /\ UNCHANGED <<pending, clients>>
           ELSE /\ pending' = Frame(msgSender, _proof, _sender)
                /\ UNCHANGED <<storage, lastOp, clients>>

\* validateProof from the return of the staticcall: error 400 when the call
\* failed, else the recording loop
ValidateProofReturn(outcome) ==
    LET err  == IF ~CallSucceeded(outcome) THEN ValidationRejected ELSE Ok
        call == Call("validateProof", pending.msgSender, pending.proof,
                     pending.sender, outcome, ValidatorCalldataCRS, err, FALSE)
    IN  /\ pending.active
        /\ pending' = NoCall
        /\ UNCHANGED clients
        /\ IF err # Ok
           THEN Revert(call)
           ELSE /\ validatedProofs' = ValidatedProofsAfter(pending.msgSender,
                                          pending.proof, pending.sender, outcome)
                /\ lastOp' = call
                /\ UNCHANGED <<validators, disabledValidators, latestEpoch,
                               commonReferenceString>>

\* a call into ACE that the validator makes, or has another contract make,
\* before it returns: it runs in the static context of the staticcall, where
\* a call that would write storage fails
InStaticCall(A, call, writes) ==
    /\ pending.active
    /\ UNCHANGED <<pending, clients>>
    /\ IF call.err = Ok /\ writes /\ ValidatorCallIsStatic
       THEN Revert([call EXCEPT !.err = StaticStateChange])
       ELSE A

NestedSetProof(msgSender, _proof, _validatorAddress) ==
    InStaticCall(SetProof(msgSender, _proof, _validatorAddress),
                 Call("setProof", msgSender, _proof, _validatorAddress, <<>>,
                      ZeroCRS, SetProofErr(msgSender, _proof, _validatorAddress),
                      FALSE),
                 TRUE)

NestedInvalidateProof(msgSender, _proof) ==
    InStaticCall(InvalidateProof(msgSender, _proof),
                 Call("invalidateProof", msgSender, _proof, ZERO_ADDRESS, <<>>,
                      ZeroCRS, InvalidateProofErr(msgSender, _proof), FALSE),
                 TRUE)

NestedValidateProof(msgSender, _proof, _sender, outcome) ==
    InStaticCall(ValidateProof(msgSender, _proof, _sender, outcome),
                 Call("validateProof", msgSender, _proof, _sender, outcome,
                      ValidatorCalldataCRS, ValidateProofErr(_proof, outcome), FALSE),
                 IsBalanced(_proof) /\ Len(outcome) > 0)

NestedClearProofByHashes(msgSender, _proof, _proofHashes) ==
    InStaticCall(ClearProofByHashes(msgSender, _proof, _proofHashes),
                 Call("clearProofByHashes", msgSender, _proof, ZERO_ADDRESS,
                      _proofHashes, ZeroCRS,
                      ClearProofByHashesErr(msgSender, _proof, _proofHashes), FALSE),
                 Len(_proofHashes) > 0)

\* what the validator of a nested validateProof returns, and the lists of a
\* nested clearProofByHashes: one element is enough to make the call write
NestedOutcomes == {CallFailed} \cup SeqsUpTo(ProofOutput, 1)

NestedHashLists == SeqsUpTo(ProofHashes, 1)

\* between transactions
Idle(A) ==
    /\ ~pending.active
    /\ A
    /\ UNCHANGED <<pending, clients>>

NextReentrancy ==
    \/ \E s \in Callers, p \in Proofs, a \in Callers : ValidateProofEnter(s, p, a)
    \/ \E o \in ValidatorOutcomes : ValidateProofReturn(o)
    \/ \E s \in Callers, p \in Proofs, a \in ValidatorAddresses :
            Idle(SetProof(s, p, a))
    \/ \E s \in Callers : Idle(IncrementLatestEpoch(s))
    \/ \E s \in Callers, p \in Proofs : Idle(InvalidateProof(s, p))
    \/ \E s \in Callers, p \in Proofs, a \in ValidatorAddresses :
            NestedSetProof(s, p, a)
    \/ \E s \in Callers, p \in Proofs : NestedInvalidateProof(s, p)
    \/ \E s \in Callers, p \in Proofs, a \in Callers, o \in NestedOutcomes :
            NestedValidateProof(s, p, a, o)
    \/ \E s \in Callers, p \in Proofs, h \in NestedHashLists :
            NestedClearProofByHashes(s, p, h)

SpecReentrancy == Init /\ [][NextReentrancy]_vars

-----------------------------------------------------------------------------
(* sendWithdraw: the client sends validateProof, confidentialTransferFrom   *)
(* and one updateNoteMetaData per output note                               *)

\* sendWithdraw is explored with up to this many output notes
MaxNotes == 2

NoteHashes == {1, 2}

\* the owner of an output note: one of the two accounts of the call, or another
NoteOwners == {"inputNotesOwner.address", "outputNotesOwner.address", "other"}

Notes == [noteHash : NoteHashes, owner : NoteOwners]

\* how an awaited step ends: the transaction is sent and mined, it is sent and
\* fails, or an expression evaluated before the send throws
Outcomes == {"resolved", "rejected", "threw"}

\* a transaction handed to Web3Service ... .send(), and whether it resolved
Tx(contract, method, noteHash, address, outcome) ==
    [contract |-> contract, method |-> method, noteHash |-> noteHash,
     address |-> address, ok |-> outcome = "resolved"]

\* the transactions a step hands to Web3Service: none when it threw before
Sent(tx, outcome) == IF outcome = "threw" THEN <<>> ELSE <<tx>>

\* mutant: a rejected send is not noticed
Caught_Mut(outcome) == FALSE

\* the catch block of a step runs when the awaited send rejects or an
\* expression of the try block throws
Caught(outcome) == outcome # "resolved"

\* throw new ContractError(error, ...)
Throw(error) == [withdraw EXCEPT !.pc = "thrown", !.error = error]

\* the account that is given access to an output note
AccessAddress(note) ==
    IF note.owner = "outputNotesOwner.address"
    THEN "outputNotesOwner.address"
    ELSE "inputNotesOwner.address"

\* asyncForEach: the callback of the next element is called when the promise
\* of the previous one has resolved
AsyncForEachNext(i) == i + 1

ClientStep == UNCHANGED <<storage, lastOp, pending, transaction>>

CallSendWithdraw(outputNotes) ==
    /\ withdraw.pc = "idle"
    /\ withdraw' = [NoWithdraw EXCEPT !.pc = "validateProof",
                                      !.outputNotes = outputNotes]
    /\ ClientStep

\* the first try block
SendValidateProof(outcome) ==
    LET tx == Tx("ACE", "validateProof", 0, "inputNotesOwner.address", outcome)
        w  == [withdraw EXCEPT !.sent = @ \o Sent(tx, outcome)]
    IN  /\ withdraw.pc = "validateProof"
        /\ withdraw' = IF Caught(outcome)
                       THEN [w EXCEPT !.pc = "thrown", !.error = "ace.validateProof"]
                       ELSE [w EXCEPT !.pc = "confidentialTransferFrom"]
        /\ ClientStep

\* the second try block
SendConfidentialTransferFrom(outcome) ==
    LET tx == Tx("ZkAsset", "confidentialTransferFrom", 0, "assetAddress", outcome)
        w  == [withdraw EXCEPT !.sent = @ \o Sent(tx, outcome)]
    IN  /\ withdraw.pc = "confidentialTransferFrom"
        /\ withdraw' = IF Caught(outcome)
                       THEN [w EXCEPT !.pc = "thrown",
                                      !.error = "zkAsset.confidentialTransferFrom"]
                       ELSE [w EXCEPT !.pc = "getOutputNotes"]
        /\ ClientStep

\* the third try block up to the loop: the output notes are decoded
GetOutputNotes(throws) ==
    /\ withdraw.pc = "getOutputNotes"
    /\ withdraw' = IF throws
                   THEN Throw("note.shareAccess")
                   ELSE [withdraw EXCEPT !.pc = "updateNoteMetaData"]
    /\ ClientStep

\* one callback of the loop: a failed send throws 'zkAsset.updateNoteMetaData',
\* which the outer catch turns into 'note.shareAccess'
SendUpdateNoteMetaData(outcome) ==
    LET note == withdraw.outputNotes[withdraw.i + 1]
        tx   == Tx("ZkAsset", "updateNoteMetaData", note.noteHash,
                   AccessAddress(note), outcome)
        w    == [withdraw EXCEPT !.sent = @ \o Sent(tx, outcome)]
    IN  /\ withdraw.pc = "updateNoteMetaData"
        /\ withdraw.i < Len(withdraw.outputNotes)
        /\ withdraw' = IF Caught(outcome)
                       THEN [w EXCEPT !.pc = "thrown", !.error = "note.shareAccess"]
                       ELSE [w EXCEPT !.i = AsyncForEachNext(withdraw.i)]
        /\ ClientStep

\* return outputNotes
ReturnOutputNotes ==
    /\ withdraw.pc = "updateNoteMetaData"
    /\ ~(withdraw.i < Len(withdraw.outputNotes))
    /\ withdraw' = [withdraw EXCEPT !.pc = "returned",
                                    !.result = withdraw.outputNotes]
    /\ ClientStep

NextWithdraw ==
    \/ \E outputNotes \in SeqsUpTo(Notes, MaxNotes) : CallSendWithdraw(outputNotes)
    \/ \E outcome \in Outcomes : SendValidateProof(outcome)
    \/ \E outcome \in Outcomes : SendConfidentialTransferFrom(outcome)
    \/ \E throws \in BOOLEAN : GetOutputNotes(throws)
    \/ \E outcome \in Outcomes : SendUpdateNoteMetaData(outcome)
    \/ ReturnOutputNotes

SpecWithdraw == Init /\ [][NextWithdraw]_vars

-----------------------------------------------------------------------------
(* sendTransaction: the background script relays one transaction through    *)
(* the gas station network and answers the query                            *)

\* the characters of the messages the model throws
Relayer == <<"r", "e", "l", "a", "y", "e", "r">>

\* error messages: some hold the word, one holds it capitalised, one not at all
Messages ==
    {Relayer,
     <<"n", "o", " ">> \o Relayer \o <<"s">>,
     <<"R", "e", "l", "a", "y", "e", "r">>,
     <<"r", "e", "v", "e", "r", "t">>}

\* what a rejected promise or a throw carries: an Error with a message, or a
\* value that has none
NoMessage == <<"undefined">>

Errors == [message : Messages \cup {NoMessage}, code : {"retrieve", "send"}]

\* the queries: contract, method and params in data, and the responseId
Queries ==
    [data : [contract : {"ACE", "ZkAsset"},
             method   : {"validateProof", "confidentialTransferFrom"},
             params   : {<<>>, <<"proofData">>}],
     responseId : {"r1", "r2"}]

Receipts == {"0xreceipt1", "0xreceipt2"}

\* mutant: the pattern is looked for at the start of the message only
Matches_Mut(message, pattern) ==
    /\ Len(message) >= Len(pattern)
    /\ SubSeq(message, 1, Len(pattern)) = pattern

\* String.prototype.match with a pattern of plain characters: the pattern
\* occurs somewhere in the message
Matches(message, pattern) ==
    \E k \in 1..(Len(message) - Len(pattern) + 1) :
        SubSeq(message, k, k + Len(pattern) - 1) = pattern

\* the error that replaces one whose message matches /relayer/
RelayerError == [key |-> "transaction.gsn.error.relayer", fetal |-> TRUE]

\* the value sendTransaction resolves with: the query with its data replaced
Response(query, data) == [query EXCEPT !.data = data]

BackgroundStep == UNCHANGED <<storage, lastOp, pending, withdraw>>

CallSendTransaction(query) ==
    /\ transaction.pc = "idle"
    /\ transaction' = [NoTransaction EXCEPT !.pc = "retrieveSigningInfo",
                                            !.query = query]
    /\ BackgroundStep

\* the catch block: an error without a message makes error.message.match throw,
\* and the promise of sendTransaction rejects
Catch(e) ==
    IF e.message = NoMessage
    THEN [transaction EXCEPT !.pc = "done", !.thrown = <<e>>,
                             !.settled = "rejected", !.value = <<"TypeError">>]
    ELSE [transaction EXCEPT
              !.pc = "done", !.thrown = <<e>>, !.settled = "resolved",
              !.value = <<Response(transaction.query,
                                   [k \in {"error"} |->
                                        IF Matches(e.message, Relayer)
                                        THEN <<RelayerError>>
                                        ELSE <<e>>])>>]

\* await retrieveSigningInfo(address) resolves
RetrieveSigningInfoResolves ==
    /\ transaction.pc = "retrieveSigningInfo"
    /\ transaction' = [transaction EXCEPT !.pc = "send"]
    /\ BackgroundStep

\* await retrieveSigningInfo(address) rejects
RetrieveSigningInfoRejects(e) ==
    /\ transaction.pc = "retrieveSigningInfo"
    /\ e.code = "retrieve"
    /\ transaction' = Catch(e)
    /\ BackgroundStep

\* the relayed send resolves with a receipt
SendResolves(receipt) ==
    /\ transaction.pc = "send"
    /\ transaction' =
           [transaction EXCEPT
                !.pc = "done", !.sendSucceeded = TRUE, !.settled = "resolved",
                !.value = <<Response(transaction.query,
                                     [k \in {"txReceipt"} |-> <<receipt>>])>>]
    /\ BackgroundStep

\* the relayed send rejects
SendRejects(e) ==
    /\ transaction.pc = "send"
    /\ e.code = "send"
    /\ transaction' = Catch(e)
    /\ BackgroundStep

NextTransaction ==
    \/ \E query \in Queries : CallSendTransaction(query)
    \/ RetrieveSigningInfoResolves
    \/ \E e \in Errors : RetrieveSigningInfoRejects(e)
    \/ \E receipt \in Receipts : SendResolves(receipt)
    \/ \E e \in Errors : SendRejects(e)

SpecTransaction == Init /\ [][NextTransaction]_vars

-----------------------------------------------------------------------------
(* Properties *)

EpochOf(_proof) == GetProofComponents(_proof).epoch

\* the ledger keys of a list of proof hashes
KeysOf(hashes, _proof, account) ==
    {ValidatedProofHash(hashes[i], _proof, account) : i \in 1..Len(hashes)}

\* the proof hashes of a list of proof outputs
HashesOf(outputs) == [i \in 1..Len(outputs) |-> Keccak256(outputs[i])]

\* C1: registration is write-once.  In the state a successful setProof(id, h1)
\* leaves, the validator of id is h1 and setProof(id, h2) by the owner fails
\* with "existing proofs cannot be modified" for every h2.
C1_WriteOnce ==
    (lastOp.fn = "setProof" /\ lastOp.err = Ok) =>
        /\ ValidatorOf(lastOp.proof) = lastOp.address
        /\ \A h2 \in ValidatorAddresses :
               SetProofErr(owner, lastOp.proof, h2) = AlreadyRegistered

\* C2: epoch gate.  A setProof by the owner for a proof whose epoch is above
\* latestEpoch fails with "the proof epoch cannot be bigger than the latest
\* epoch" and writes no validator; a validator is written only for a proof
\* whose epoch is at most latestEpoch.
C2_EpochGate ==
    [][ /\ (/\ lastOp'.fn = "setProof"
            /\ lastOp'.sender = owner
            /\ EpochOf(lastOp'.proof) > latestEpoch)
           => (lastOp'.err = EpochExceeded /\ validators' = validators)
        /\ \A p \in Proofs :
               validators'[p] # validators[p] => EpochOf(p) <= latestEpoch
      ]_vars

C2_Witness ==
    /\ lastOp.fn = "setProof"
    /\ lastOp.sender = owner
    /\ EpochOf(lastOp.proof) > latestEpoch
    /\ lastOp.err = EpochExceeded

\* C3: revocation is total.  Once invalidateProof(id) has succeeded (the flag of
\* id is set, and no function resets it), every validateProof and every
\* validateProofByHash for id fails as disabled.
C3_RevocationTotal ==
    /\ (lastOp.fn = "validateProof" /\ IsDisabled(lastOp.proof))
           => lastOp.err = DisabledValidator
    /\ (lastOp.fn = "validateProofByHash" /\ IsDisabled(lastOp.proof))
           => lastOp.err = DisabledValidator_byHash

\* a successful validateProof on a balanced proof that returned two proof
\* outputs with different hashes
TwoOutputs(call) ==
    /\ call.fn = "validateProof"
    /\ call.err = Ok
    /\ GetProofComponents(call.proof).category = BALANCED
    /\ Len(call.data) = 2
    /\ call.data[1] # call.data[2]

\* the round trip of C4 for the account `account(call)` of a validateProof call
RoundTrip(account(_)) ==
    (TwoOutputs(lastOp) \/ TwoOutputs(lastOp')) =>
    \A p \in Proofs, a \in Callers, o1, o2 \in ProofOutput :
        /\ (/\ TwoOutputs(lastOp')
            /\ lastOp'.proof = p
            /\ account(lastOp') = a
            /\ lastOp'.data = <<o1, o2>>)
           => /\ ValidateProofByHashErr(p)' = Ok
              /\ IsProofValid(p, Keccak256(o1), a)'
              /\ IsProofValid(p, Keccak256(o2), a)'
        /\ (/\ TwoOutputs(lastOp)
            /\ lastOp.proof = p
            /\ account(lastOp) = a
            /\ lastOp.data = <<o1, o2>>
            /\ lastOp'.fn = "clearProofByHashes"
            /\ lastOp'.proof = p
            /\ lastOp'.sender = a
            /\ lastOp'.data = <<Keccak256(o1)>>)
           => /\ lastOp'.err = Ok
              /\ ValidateProofByHashErr(p)' = Ok
              /\ ~IsProofValid(p, Keccak256(o1), a)'
              /\ IsProofValid(p, Keccak256(o2), a)'

MsgSenderOf(call) == call.sender

SenderArgumentOf(call) == call.address

\* C4 (as amended): when validateProof(id, s, data), sent by account c, succeeds
\* on a balanced id with two proof outputs of different hashes fp1 and fp2,
\* validateProofByHash(id, fp, c) is true for both; when c then calls
\* clearProofByHashes(id, [fp1]), the call succeeds and validateProofByHash is
\* false for (id, fp1, c) and still true for (id, fp2, c).
C4_RoundTrip == [][RoundTrip(MsgSenderOf)]_vars

\* C4 (as claimed): the same round trip, with the _sender argument s of
\* validateProof as the account of validateProofByHash and clearProofByHashes.
C4_RoundTripBySender == [][RoundTrip(SenderArgumentOf)]_vars

C4_Witness ==
    /\ lastOp.fn = "clearProofByHashes"
    /\ lastOp.err = Ok
    /\ Len(lastOp.data) = 1
    /\ ValidateProofByHashErr(lastOp.proof) = Ok
    /\ ~IsProofValid(lastOp.proof, lastOp.data[1], lastOp.sender)
    /\ \E h \in ProofHashes : IsProofValid(lastOp.proof, h, lastOp.sender)

\* the effect of a successful validateProof on a balanced proof: the records
\* of the hashes of all its proof outputs under `account(call)` are true and
\* no other record changes
LedgerKey(account(_)) ==
    (/\ lastOp'.fn = "validateProof"
     /\ lastOp'.err = Ok
     /\ GetProofComponents(lastOp'.proof).category = BALANCED)
    => validatedProofs' = validatedProofs
           \cup KeysOf(HashesOf(lastOp'.data), lastOp'.proof, account(lastOp'))

\* C5 (as amended): a successful validateProof(id, s, data) sent by account c on
\* a balanced id sets the record keyed (hash(output), id, c) to true for every
\* proof output, already true or not, and changes no other record.
C5_LedgerKey == [][LedgerKey(MsgSenderOf)]_vars

\* C5 (as claimed): the records are keyed (hash(output), id, s) by the _sender
\* argument s, also when the sending account c differs from s.
C5_LedgerKeyBySender == [][LedgerKey(SenderArgumentOf)]_vars

C5_Witness ==
    /\ lastOp.fn = "validateProof"
    /\ lastOp.err = Ok
    /\ GetProofComponents(lastOp.proof).category = BALANCED
    /\ lastOp.sender # lastOp.address
    /\ Len(lastOp.data) = 2
    /\ KeysOf(HashesOf(lastOp.data), lastOp.proof, lastOp.sender) \subseteq validatedProofs

\* C6: clearProofByHashes is not idempotent.  A clear of one proof hash whose
\* record is true for the caller succeeds, and in the state that a successful
\* clear of one proof hash leaves, the same call fails with "can only clear
\* previously validated proofs".
C6_ClearNotIdempotent ==
    /\ \A s \in Callers, p \in Proofs, h \in ProofHashes :
           IsProofValid(p, h, s) => ClearProofByHashesErr(s, p, <<h>>) = Ok
    /\ (lastOp.fn = "clearProofByHashes" /\ lastOp.err = Ok /\ Len(lastOp.data) = 1)
           => ClearProofByHashesErr(lastOp.sender, lastOp.proof, lastOp.data)
                  = NotPreviouslyValidated

C6_Witness ==
    /\ lastOp.fn = "clearProofByHashes"
    /\ lastOp.err = Ok
    /\ Len(lastOp.data) = 1

\* some proof hash of the list is zero or has no true record for the caller
SomeNotClearable(hashes, _proof, account) ==
    \E i \in 1..Len(hashes) :
        \/ hashes[i] = ZERO_HASH
        \/ ValidatedProofHash(hashes[i], _proof, account) \notin validatedProofs

NoRepeat(hashes) ==
    \A i, j \in 1..Len(hashes) : i # j => hashes[i] # hashes[j]

\* C7 (as amended): clearProofByHashes is all-or-nothing.  If some listed proof
\* hash is zero or has no true record for the caller, or a proof hash is listed
\* twice, the call fails and no record changes; otherwise the call succeeds,
\* exactly the listed records become false and no other record changes.
C7_ClearAllOrNothing ==
    [][ lastOp'.fn = "clearProofByHashes" =>
          IF \/ SomeNotClearable(lastOp'.data, lastOp'.proof, lastOp'.sender)
             \/ ~NoRepeat(lastOp'.data)
          THEN /\ lastOp'.err # Ok
               /\ validatedProofs' = validatedProofs
          ELSE /\ lastOp'.err = Ok
               /\ validatedProofs' = validatedProofs
                      \ KeysOf(lastOp'.data, lastOp'.proof, lastOp'.sender)
      ]_vars

\* C7 (as claimed): whenever every listed proof hash is non-zero and has a true
\* record, the call succeeds and exactly the listed records become false.
C7_ClearAllOrNothingAsClaimed ==
    [][ lastOp'.fn = "clearProofByHashes" =>
          IF SomeNotClearable(lastOp'.data, lastOp'.proof, lastOp'.sender)
          THEN /\ lastOp'.err # Ok
               /\ validatedProofs' = validatedProofs
          ELSE /\ lastOp'.err = Ok
               /\ validatedProofs' = validatedProofs
                      \ KeysOf(lastOp'.data, lastOp'.proof, lastOp'.sender)
      ]_vars

\* a failed clear of two proof hashes whose first record is, and stays, true
C7_Witness ==
    /\ lastOp.fn = "clearProofByHashes"
    /\ lastOp.err = NotPreviouslyValidated
    /\ Len(lastOp.data) = 2
    /\ lastOp.data[1] # lastOp.data[2]
    /\ IsProofValid(lastOp.proof, lastOp.data[1], lastOp.sender)

\* C8: a validateProof on a proof whose category is not BALANCED, successful or
\* not, changes no record, whatever the validator returns.
C8_NonBalancedWritesNothing ==
    [][ (/\ lastOp'.fn = "validateProof"
         /\ GetProofComponents(lastOp'.proof).category # BALANCED)
        => validatedProofs' = validatedProofs ]_vars

C8_Witness ==
    /\ lastOp.fn = "validateProof"
    /\ lastOp.err = Ok
    /\ GetProofComponents(lastOp.proof).category # BALANCED
    /\ Len(lastOp.data) = 2

\* C9: validateProof is atomic.  When the staticcall to the validator fails, the
\* call fails with 400 and the whole storage is as before; every validateProof
\* either leaves the ledger as it was or succeeds with the records of all its
\* proof outputs true.
C9_ValidateAtomic ==
    [][ lastOp'.fn = "validateProof" =>
          /\ lastOp'.data = CallFailed
                 => (lastOp'.err = ValidationRejected /\ UNCHANGED storage)
          /\ lastOp'.err # Ok => UNCHANGED storage
          /\ \/ validatedProofs' = validatedProofs
             \/ /\ lastOp'.err = Ok
                /\ KeysOf(HashesOf(lastOp'.data), lastOp'.proof, lastOp'.sender)
                       \subseteq validatedProofs'
      ]_vars

C9_Witness ==
    /\ lastOp.fn = "validateProof"
    /\ lastOp.data = CallFailed
    /\ lastOp.err = ValidationRejected
    /\ GetProofComponents(lastOp.proof).category = BALANCED

OwnerFunctions ==
    {"setProof", "invalidateProof", "incrementLatestEpoch", "setCommonReferenceString"}

UnauthorizedOf(fn) ==
    CASE fn = "setProof" -> Unauthorized_setProof
      [] fn = "invalidateProof" -> Unauthorized_invalidate
      [] fn = "incrementLatestEpoch" -> Unauthorized_increment
      [] fn = "setCommonReferenceString" -> Unauthorized_setCRS

\* C10: setProof, invalidateProof, incrementLatestEpoch and
\* setCommonReferenceString sent by an account that is not the owner fail with
\* their "only the owner" reason and leave the whole storage unchanged,
\* whatever the other arguments.
C10_OwnerOnly ==
    [][ (lastOp'.fn \in OwnerFunctions /\ lastOp'.sender # owner)
        => (lastOp'.err = UnauthorizedOf(lastOp'.fn) /\ UNCHANGED storage) ]_vars

C10_Witness ==
    /\ lastOp.fn = "incrementLatestEpoch"
    /\ lastOp.sender # owner
    /\ lastOp.err = Unauthorized_increment

\* a true record the call just made changes as C11 allows: it becomes true only
\* in a successful validateProof on a balanced proof sent by the account of its
\* key, and becomes false only in a successful clearProofByHashes sent by that
\* account that lists its proof hash
RecordTransitions ==
    /\ \A key \in validatedProofs' \ validatedProofs :
           /\ lastOp'.fn = "validateProof"
           /\ lastOp'.err = Ok
           /\ lastOp'.proof = key[2]
           /\ GetProofComponents(key[2]).category = BALANCED
           /\ lastOp'.sender = key[3]
    /\ \A key \in validatedProofs \ validatedProofs' :
           /\ lastOp'.fn = "clearProofByHashes"
           /\ lastOp'.err = Ok
           /\ lastOp'.proof = key[2]
           /\ lastOp'.sender = key[3]
           /\ \E i \in 1..Len(lastOp'.data) : lastOp'.data[i] = key[1]

\* a clearProofByHashes of the one proof hash of a true record, sent by an
\* account that is not the account of the record's key
ClearByAnother(key) ==
    /\ key \in validatedProofs
    /\ lastOp'.fn = "clearProofByHashes"
    /\ lastOp'.proof = key[2]
    /\ lastOp'.data = <<key[1]>>
    /\ lastOp'.sender # key[3]

\* C11 (as amended): a record becomes true only in a successful validateProof
\* on a balanced proof, under the account that sent it, and becomes false only
\* in a successful clearProofByHashes sent by that account; a clear of its proof
\* hash sent by another account leaves the record true, and fails with "can
\* only clear previously validated proofs" unless that account has a true
\* record of its own for the proof hash and proof.
C11_RecordTransitions ==
    [][ /\ RecordTransitions
        /\ \A key \in validatedProofs :
               ClearByAnother(key) =>
                   /\ key \in validatedProofs'
                   /\ (lastOp'.err = NotPreviouslyValidated)
                          <=> ~IsProofValid(key[2], key[1], lastOp'.sender)
                   /\ lastOp'.err \in {NotPreviouslyValidated, Ok}
      ]_vars

\* C11 (as claimed): every clear of its proof hash sent by another account
\* fails with "can only clear previously validated proofs".
C11_RecordTransitionsAsClaimed ==
    [][ /\ RecordTransitions
        /\ \A key \in validatedProofs :
               ClearByAnother(key) =>
                   /\ key \in validatedProofs'
                   /\ lastOp'.err = NotPreviouslyValidated
      ]_vars

\* a clear by another account has failed and the record is still true
C11_Witness ==
    /\ lastOp.fn = "clearProofByHashes"
    /\ lastOp.err = NotPreviouslyValidated
    /\ Len(lastOp.data) = 1
    /\ \E a \in Callers :
           /\ a # lastOp.sender
           /\ IsProofValid(lastOp.proof, lastOp.data[1], a)

\* C12: latestEpoch never decreases, and no call but a successful
\* incrementLatestEpoch changes it.
C12_EpochMonotone ==
    [][ /\ latestEpoch' >= latestEpoch
        /\ latestEpoch' # latestEpoch =>
               /\ lastOp'.fn = "incrementLatestEpoch"
               /\ lastOp'.err = Ok
      ]_vars

\* the epoch has been raised and another call has been made since
C12_Witness ==
    /\ latestEpoch > 1
    /\ lastOp.fn = "setProof"
    /\ lastOp.err = Ok

\* C13 (as amended): incrementLatestEpoch sent by the owner succeeds and raises
\* latestEpoch by exactly 1 while latestEpoch is below 255; at 255 it fails in
\* SafeMath8.add and latestEpoch stays 255; sent by anyone else it fails as
\* unauthorised; a failed call changes no storage.
C13_IncrementTotalBelowMax ==
    [][ lastOp'.fn = "incrementLatestEpoch" =>
            IF lastOp'.sender # owner
            THEN lastOp'.err = Unauthorized_increment /\ UNCHANGED storage
            ELSE IF latestEpoch < MaxUint8
            THEN lastOp'.err = Ok /\ latestEpoch' = latestEpoch + 1
            ELSE lastOp'.err = Overflow /\ UNCHANGED storage
      ]_vars

\* C13 (as claimed): incrementLatestEpoch sent by the owner succeeds from every
\* reachable state and raises latestEpoch by exactly 1.
C13_IncrementTotal ==
    [][ (lastOp'.fn = "incrementLatestEpoch" /\ lastOp'.sender = owner) =>
            /\ lastOp'.err = Ok
            /\ latestEpoch' = latestEpoch + 1
      ]_vars

\* the owner's call has failed at the last value of the counter
C13_Witness ==
    /\ latestEpoch = MaxUint8
    /\ lastOp.fn = "incrementLatestEpoch"
    /\ lastOp.sender = owner
    /\ lastOp.err = Overflow

\* C14: validateProof fails before the validator is called, with "expected the
\* validator address to exist" for a proof that has no validator and with
\* "expected the validator address to not be disabled" for a proof that has one
\* and was invalidated; only a proof that has a validator and was not
\* invalidated gets as far as the validator.
C14_FailFast ==
    lastOp.fn = "validateProof" =>
        /\ ValidatorOf(lastOp.proof) = ZERO_ADDRESS =>
               lastOp.err = UnknownValidator
        /\ (ValidatorOf(lastOp.proof) # ZERO_ADDRESS /\ IsDisabled(lastOp.proof)) =>
               lastOp.err = DisabledValidator
        /\ lastOp.err \notin {UnknownValidator, DisabledValidator} =>
               /\ ValidatorOf(lastOp.proof) # ZERO_ADDRESS
               /\ ~IsDisabled(lastOp.proof)

\* C15: invalidateProof sent by the owner fails with "can only invalidate proofs
\* that exist!" and changes no storage when the proof has no validator; when
\* the proof has one it succeeds and leaves the proof invalidated, and sent
\* again it succeeds again and leaves the storage as it was.
C15_InvalidateIdempotent ==
    [][ \A p \in Proofs :
            (/\ lastOp'.fn = "invalidateProof"
             /\ lastOp'.sender = owner
             /\ lastOp'.proof = p) =>
                IF ValidatorOf(p) = ZERO_ADDRESS
                THEN /\ lastOp'.err = UnknownValidator_invalidate
                     /\ UNCHANGED storage
                ELSE /\ lastOp'.err = Ok
                     /\ IsDisabled(p)'
                     /\ InvalidateProofErr(owner, p)' = Ok
                     /\ IsDisabled(p) => UNCHANGED storage
                     /\ UNCHANGED <<validators, latestEpoch, commonReferenceString,
                                    validatedProofs>>
      ]_vars

\* the owner has invalidated a proof that has a validator
C15_Witness ==
    /\ lastOp.fn = "invalidateProof"
    /\ lastOp.err = Ok
    /\ ValidatorOf(lastOp.proof) # ZERO_ADDRESS
    /\ IsDisabled(lastOp.proof)

\* where a proof stands: whether it has a validator and whether it was
\* invalidated
Lifecycle(_proof) ==
    <<ValidatorOf(_proof) # ZERO_ADDRESS, IsDisabled(_proof)>>

Unregistered == <<FALSE, FALSE>>

RegisteredActive == <<TRUE, FALSE>>

RegisteredRevoked == <<TRUE, TRUE>>

\* C16: no proof is invalidated without having a validator: a proof is
\* unregistered, registered and active, or registered and revoked, and a step
\* takes it from unregistered to registered and active, or from registered and
\* active to registered and revoked, and never back.
C16_Lifecycle ==
    [][ \A p \in Proofs :
            LET before == Lifecycle(p)
                after  == Lifecycle(p)'
            IN  /\ before \in {Unregistered, RegisteredActive, RegisteredRevoked}
                /\ \/ UNCHANGED <<validators, disabledValidators>>
                   \/ after = before
                   \/ before = Unregistered /\ after = RegisteredActive
                   \/ before = RegisteredActive /\ after = RegisteredRevoked
      ]_vars

\* one proof has been registered and revoked while another is still unregistered
C16_Witness ==
    \E p, q \in Proofs :
        /\ Lifecycle(p) = RegisteredRevoked
        /\ Lifecycle(q) = Unregistered

\* C17: validateProofByHash fails with "this proof id has been invalidated!"
\* exactly when the proof was invalidated, and for every other proof, one that
\* has no validator included, it returns the value of the record of the proof
\* hash, the proof and the sender it was asked about.
C17_ByHashTotal ==
    lastOp.fn = "validateProofByHash" =>
        IF IsDisabled(lastOp.proof)
        THEN lastOp.err = DisabledValidator_byHash
        ELSE /\ lastOp.err = Ok
             /\ lastOp.ret = IsProofValid(lastOp.proof, lastOp.data[1], lastOp.address)

\* C18: setCommonReferenceString sent by the owner replaces the six words with
\* the six it is given, whatever they are; getCommonReferenceString returns the
\* stored words, which only a successful setCommonReferenceString changes; and
\* a validator is called with the words stored at the time of the call.
C18_ReferenceString ==
    [][ /\ (lastOp'.fn = "setCommonReferenceString" /\ lastOp'.sender = owner) =>
               /\ lastOp'.err = Ok
               /\ commonReferenceString' = lastOp'.crs
        /\ commonReferenceString' # commonReferenceString =>
               /\ lastOp'.fn = "setCommonReferenceString"
               /\ lastOp'.err = Ok
        /\ lastOp'.fn = "getCommonReferenceString" =>
               /\ lastOp'.err = Ok
               /\ lastOp'.crs = commonReferenceString
               /\ UNCHANGED storage
        /\ (/\ lastOp'.fn = "validateProof"
            /\ lastOp'.err \notin {UnknownValidator, DisabledValidator}) =>
               lastOp'.crs = commonReferenceString
      ]_vars

\* a validator has been called after the reference string was set
C18_Witness ==
    /\ lastOp.fn = "validateProof"
    /\ lastOp.err = Ok
    /\ lastOp.crs # ZeroCRS
    /\ lastOp.crs = commonReferenceString

\* C20: in validateProof no storage is written before the validator returns:
\* the step up to the staticcall writes nothing, no call made while the
\* validator runs changes the storage, and the ledger is written only in the
\* step in which the validator has returned without failing.
C20_WritesAfterValidator ==
    [][ /\ (~pending.active /\ pending'.active) => UNCHANGED storage
        /\ (pending.active /\ pending'.active) => UNCHANGED storage
        /\ (pending.active /\ ~pending'.active) =>
               /\ lastOp'.fn = "validateProof"
               /\ UNCHANGED <<validators, disabledValidators, latestEpoch,
                              commonReferenceString>>
               /\ validatedProofs' # validatedProofs =>
                      /\ lastOp'.err = Ok
                      /\ lastOp'.data # CallFailed
        /\ (lastOp'.fn = "validateProof" /\ validatedProofs' # validatedProofs) =>
               pending.active /\ ~pending'.active
      ]_vars

\* while a validator runs, a nested call that would write the ledger has failed
C20_Witness ==
    /\ pending.active
    /\ lastOp.fn = "validateProof"
    /\ lastOp.err = StaticStateChange

HasZero(hashes) == \E i \in 1..Len(hashes) : hashes[i] = ZERO_HASH

\* the index of the first zero proof hash of a list that has one
FirstZero(hashes) ==
    CHOOSE i \in 1..Len(hashes) :
        /\ hashes[i] = ZERO_HASH
        /\ \A j \in 1..(i - 1) : hashes[j] # ZERO_HASH

\* the loop gets past the proof hashes before index k: each has a true record
\* for the caller and is listed once
PrefixClearable(hashes, k, _proof, account) ==
    \A j \in 1..(k - 1) :
        /\ ValidatedProofHash(hashes[j], _proof, account) \in validatedProofs
        /\ \A i \in 1..(j - 1) : hashes[i] # hashes[j]

\* C19 (as amended): a clearProofByHashes call whose list holds a zero proof
\* hash fails and clears nothing; it fails with "expected no empty proof hash"
\* when every proof hash listed before the first zero has a true record for the
\* caller and is listed once, and with "can only clear previously validated
\* proofs" otherwise.
C19_ZeroHashRejected ==
    [][ (lastOp'.fn = "clearProofByHashes" /\ HasZero(lastOp'.data)) =>
            /\ UNCHANGED storage
            /\ lastOp'.err =
                   IF PrefixClearable(lastOp'.data, FirstZero(lastOp'.data),
                                      lastOp'.proof, lastOp'.sender)
                   THEN InvalidFingerprint
                   ELSE NotPreviouslyValidated
      ]_vars

\* C19 (as claimed): a clearProofByHashes call whose list holds a zero proof
\* hash fails with "expected no empty proof hash" and clears nothing.
C19_ZeroHashRejectedAsClaimed ==
    [][ (lastOp'.fn = "clearProofByHashes" /\ HasZero(lastOp'.data)) =>
            /\ UNCHANGED storage
            /\ lastOp'.err = InvalidFingerprint
      ]_vars

\* a list of a recorded proof hash and a zero has been rejected for the zero,
\* and the record is still true
C19_Witness ==
    /\ lastOp.fn = "clearProofByHashes"
    /\ lastOp.err = InvalidFingerprint
    /\ Len(lastOp.data) = 2
    /\ lastOp.data[2] = ZERO_HASH
    /\ IsProofValid(lastOp.proof, lastOp.data[1], lastOp.sender)

\* C21: a record that is true for an invalidated proof stays in the ledger, and
\* while the proof is invalidated a validateProofByHash asked about the record
\* fails with "this proof id has been invalidated!".
C21_RevokedRecordsKept ==
    (/\ lastOp.fn = "validateProofByHash"
     /\ IsDisabled(lastOp.proof)
     /\ IsProofValid(lastOp.proof, lastOp.data[1], lastOp.address)) =>
        lastOp.err = DisabledValidator_byHash

\* C22: a successful setProof(id, handle), the zero address included, leaves id
\* registered and active: the validator of id is the handle and id is not
\* invalidated, getValidatorAddress(id) returns the handle, invalidateProof(id)
\* by the owner does not fail with "can only invalidate proofs that exist!",
\* and setProof(id, h2) by the owner fails with "existing proofs cannot be
\* modified".
C22_SetProofRegisters ==
    (lastOp.fn = "setProof" /\ lastOp.err = Ok) =>
        /\ ValidatorOf(lastOp.proof) = lastOp.address
        /\ ~IsDisabled(lastOp.proof)
        /\ GetValidatorAddressErr(lastOp.proof) = Ok
        /\ InvalidateProofErr(owner, lastOp.proof) # UnknownValidator_invalidate
        /\ \A h2 \in ValidatorAddresses \ {lastOp.address} :
               SetProofErr(owner, lastOp.proof, h2) = AlreadyRegistered

\* C23: validateProof, validateProofByHash and clearProofByHashes change no
\* validator, no invalidation flag, not latestEpoch and not the common
\* reference string; setProof, invalidateProof, incrementLatestEpoch and
\* setCommonReferenceString change no record of the ledger; validateProofByHash
\* and getCommonReferenceString change no storage at all.
C23_Frame ==
    [][ /\ lastOp'.fn \in {"validateProof", "validateProofByHash",
                           "clearProofByHashes"} =>
               UNCHANGED <<validators, disabledValidators, latestEpoch,
                           commonReferenceString>>
        /\ lastOp'.fn \in {"setProof", "invalidateProof", "incrementLatestEpoch",
                           "setCommonReferenceString"} =>
               UNCHANGED validatedProofs
        /\ lastOp'.fn \in {"validateProofByHash", "getCommonReferenceString"} =>
               UNCHANGED storage
      ]_vars

\* a proof has been invalidated while the ledger holds a record for it
C23_Witness ==
    /\ lastOp.fn = "invalidateProof"
    /\ lastOp.err = Ok
    /\ \E key \in validatedProofs : key[2] = lastOp.proof

\* C24: every proof that has a validator has an epoch of at most latestEpoch,
\* so no setProof meets both the condition of "the proof epoch cannot be bigger
\* than the latest epoch" and that of "existing proofs cannot be modified".
C24_BoundWithinEpoch ==
    \A p \in Proofs :
        /\ ValidatorOf(p) # ZERO_ADDRESS => EpochOf(p) <= latestEpoch
        /\ ~(~EpochAllowed(EpochOf(p)) /\ ~IsUnset(p))

\* a proof of the latest epoch, above the first, has a validator
C24_Witness ==
    \E p \in Proofs :
        /\ ValidatorOf(p) # ZERO_ADDRESS
        /\ EpochOf(p) = latestEpoch
        /\ EpochOf(p) > 1

\* C25: a clearProofByHashes that lists one proof hash twice fails with "can
\* only clear previously validated proofs" although the record is true for the
\* caller, and leaves the record true.
C25_RepeatedHashFails ==
    /\ \A s \in Callers, p \in Proofs, h \in ProofHashes :
           IsProofValid(p, h, s) =>
               /\ ClearProofByHashesErr(s, p, <<h, h>>) = NotPreviouslyValidated
               /\ ValidatedProofsCleared(s, p, <<h, h>>) = validatedProofs
    /\ (/\ lastOp.fn = "clearProofByHashes"
        /\ Len(lastOp.data) = 2
        /\ lastOp.data[1] = lastOp.data[2]
        /\ lastOp.data[1] # ZERO_HASH) =>
           lastOp.err = NotPreviouslyValidated

\* the call has failed on a record that is true
C25_Witness ==
    /\ lastOp.fn = "clearProofByHashes"
    /\ lastOp.err = NotPreviouslyValidated
    /\ Len(lastOp.data) = 2
    /\ lastOp.data[1] = lastOp.data[2]
    /\ IsProofValid(lastOp.proof, lastOp.data[1], lastOp.sender)

\* C26 (as amended): clearProofByHashes reads no validator and no invalidation
\* flag: it succeeds whenever every listed proof hash is non-zero, is listed
\* once and has a true record for the caller, also when the proof was
\* invalidated.
C26_ClearIgnoresRegistry ==
    \A s \in Callers, p \in Proofs, h \in HashLists :
        (~SomeNotClearable(h, p, s) /\ NoRepeat(h)) =>
            ClearProofByHashesErr(s, p, h) = Ok

\* C26 (as claimed): it succeeds whenever every listed proof hash is non-zero
\* and has a true record for the caller.
C26_ClearIgnoresRegistryAsClaimed ==
    \A s \in Callers, p \in Proofs, h \in HashLists :
        ~SomeNotClearable(h, p, s) => ClearProofByHashesErr(s, p, h) = Ok

\* the records of an invalidated proof have been cleared
C26_Witness ==
    /\ lastOp.fn = "clearProofByHashes"
    /\ lastOp.err = Ok
    /\ Len(lastOp.data) > 0
    /\ IsDisabled(lastOp.proof)

\* C27: the ledger writes of validateProof are idempotent and repeatable: a
\* successful validateProof on a balanced proof leaves the record of each proof
\* output true for its caller, whatever the records were before, and the same
\* call made again in the state it leaves changes nothing.
C27_ValidateIdempotent ==
    /\ \A s \in Callers, p \in Proofs, a \in Callers, o \in ValidatorOutcomes :
           (ValidateProofErr(p, o) = Ok /\ GetProofComponents(p).category = BALANCED) =>
               LET once  == ValidatedProofsAfter(s, p, a, o)
                   twice == RecordProofOutputs(once, o, 0, p, RecordingAccount(s, a))
               IN  /\ KeysOf(HashesOf(o), p, s) \subseteq once
                   /\ twice = once
    /\ (/\ lastOp.fn = "validateProof"
        /\ lastOp.err = Ok
        /\ GetProofComponents(lastOp.proof).category = BALANCED) =>
           KeysOf(HashesOf(lastOp.data), lastOp.proof, lastOp.sender)
               \subseteq validatedProofs

\* a balanced proof with two proof outputs has been validated and recorded
C27_Witness ==
    /\ lastOp.fn = "validateProof"
    /\ lastOp.err = Ok
    /\ GetProofComponents(lastOp.proof).category = BALANCED
    /\ Len(lastOp.data) = 2
    /\ ValidatedProofsAfter(lastOp.sender, lastOp.proof, lastOp.address, lastOp.data)
           = validatedProofs

\* C28: latestEpoch starts at 1 and stays within 1..255: no step takes it to a
\* smaller value, and incrementLatestEpoch sent by the owner at 255 fails and
\* changes no storage.
C28_EpochRange ==
    [][ /\ latestEpoch \in 1..MaxUint8
        /\ latestEpoch' \in 1..MaxUint8
        /\ latestEpoch' >= latestEpoch
        /\ (/\ latestEpoch = MaxUint8
            /\ lastOp'.fn = "incrementLatestEpoch"
            /\ lastOp'.sender = owner) =>
               /\ lastOp'.err # Ok
               /\ UNCHANGED storage
      ]_vars

\* the counter is at 255 and the owner's call has just failed
C28_Witness ==
    /\ latestEpoch = MaxUint8
    /\ lastOp.fn = "incrementLatestEpoch"
    /\ lastOp.sender = owner
    /\ lastOp.err # Ok

\* the transactions sendWithdraw sends when every step succeeds, in order
ExpectedTransactions(outputNotes) ==
    <<Tx("ACE", "validateProof", 0, "inputNotesOwner.address", "resolved"),
      Tx("ZkAsset", "confidentialTransferFrom", 0, "assetAddress", "resolved")>>
    \o [k \in 1..Len(outputNotes) |->
            Tx("ZkAsset", "updateNoteMetaData", outputNotes[k].noteHash,
               AccessAddress(outputNotes[k]), "resolved")]

\* C29: sendWithdraw sends validateProof, then confidentialTransferFrom, then
\* one updateNoteMetaData per output note in the order of the notes, each only
\* after the one before it has succeeded; a failing validateProof throws
\* 'ace.validateProof' with no transfer sent, a failing transfer throws
\* 'zkAsset.confidentialTransferFrom' with no update sent, and the output notes
\* are returned only when every transaction has been sent and has succeeded.
C29_WithdrawInOrder ==
    LET sent     == withdraw.sent
        expected == ExpectedTransactions(withdraw.outputNotes)
    IN  /\ Len(sent) <= Len(expected)
        /\ \A k \in 1..Len(sent) :
               /\ [sent[k] EXCEPT !.ok = TRUE] = expected[k]
               /\ k < Len(sent) => sent[k].ok
        /\ (Len(sent) >= 1 /\ ~sent[1].ok) =>
               /\ withdraw.pc = "thrown"
               /\ withdraw.error = "ace.validateProof"
               /\ Len(sent) = 1
        /\ withdraw.error = "ace.validateProof" => Len(sent) <= 1
        /\ (Len(sent) >= 2 /\ ~sent[2].ok) =>
               /\ withdraw.pc = "thrown"
               /\ withdraw.error = "zkAsset.confidentialTransferFrom"
               /\ Len(sent) = 2
        /\ withdraw.error = "zkAsset.confidentialTransferFrom" => Len(sent) <= 2
        /\ (Len(sent) >= 1 /\ ~sent[Len(sent)].ok) => withdraw.pc = "thrown"
        /\ withdraw.pc # "returned" => withdraw.result = <<>>
        /\ withdraw.pc = "returned" =>
               /\ sent = expected
               /\ withdraw.result = withdraw.outputNotes
               /\ withdraw.error = ""

\* the update of the second output note has failed after the first went through
C29_Witness ==
    /\ withdraw.pc = "thrown"
    /\ withdraw.error = "note.shareAccess"
    /\ Len(withdraw.sent) = 4
    /\ withdraw.sent[3].ok
    /\ ~withdraw.sent[4].ok

\* C30: when retrieveSigningInfo or the relayed send fails with an error that
\* has a message, sendTransaction resolves with the fields of the query and
\* data = {error}, the error being the fixed relayer error when the message
\* holds 'relayer' and the error itself otherwise; data holds txReceipt exactly
\* when the send succeeded, and never both txReceipt and error.
C30_FailuresAsValues ==
    transaction.pc = "done" =>
        /\ (transaction.thrown # <<>> /\ transaction.thrown[1].message # NoMessage) =>
               LET e        == transaction.thrown[1]
                   response == transaction.value[1]
               IN  /\ transaction.settled = "resolved"
                   /\ response.responseId = transaction.query.responseId
                   /\ DOMAIN response = DOMAIN transaction.query
                   /\ DOMAIN response.data = {"error"}
                   /\ response.data["error"] =
                          IF \E k \in 1..Len(e.message) :
                                 /\ k + Len(Relayer) - 1 <= Len(e.message)
                                 /\ \A j \in 1..Len(Relayer) :
                                        e.message[k + j - 1] = Relayer[j]
                          THEN <<RelayerError>>
                          ELSE <<e>>
        /\ transaction.settled = "resolved" =>
               LET data == transaction.value[1].data
               IN  /\ ("txReceipt" \in DOMAIN data) <=> transaction.sendSucceeded
                   /\ ~({"txReceipt", "error"} \subseteq DOMAIN data)
        /\ transaction.sendSucceeded => transaction.settled = "resolved"

\* the send has failed with a message that holds the word after other
\* characters, and the answer carries the fixed relayer error
C30_Witness ==
    /\ transaction.pc = "done"
    /\ transaction.thrown # <<>>
    /\ transaction.thrown[1].code = "send"
    /\ transaction.thrown[1].message # Relayer
    /\ transaction.settled = "resolved"
    /\ transaction.value[1].data["error"] = <<RelayerError>>

=============================================================================
